---- MODULE Spec2Model ----
(***************************************************************************)
(* State-machine model of the waveform engine (utprocess.TimeSeries) and   *)
(* the sensor format adapter (swprocess.Sensor1C).                         *)
(*                                                                         *)
(* Real numbers (amplitudes, dt, df, delay, coordinates) are exact         *)
(* rationals [n |-> numerator, d |-> denominator > 0] in lowest terms, so  *)
(* that equal numbers are equal values.  Floating-point rounding error is  *)
(* outside the model; np.round is modelled as round-half-to-even.          *)
(***************************************************************************)
EXTENDS Integers, Sequences, FiniteSets, Bags, TLC

VARIABLES
    ts,       \* the TimeSeries object: its attributes
    call,     \* the last call made on the waveform: name, arguments, outcome
    stacked,  \* ghost: what was given to the constructor and appended since
    sensor,   \* the Sensor1C last produced by Sensor1C.from_trace, or NoSensor
    scall,    \* the last Sensor1C.from_trace call: arguments and outcome
    cmp,      \* the last call made on the sensor since: arguments and outcome
    rx,       \* the pattern last compiled by regex.py and the line searched
    peaks,    \* the Peaks object, what it was built from and the last call
    padrun    \* ghost: the df of the zero_pad calls made in a row, and how
              \* many of them succeeded

vars == <<ts, call, stacked, sensor, scall, cmp, rx, peaks, padrun>>

----------------------------------------------------------------------------
(* Bounds of the model.                                                    *)

\* longest amplitude sequence handed to the constructor
MaxLen == 3
\* zero_pad is only followed while the padded length stays within this
MaxSamples == 64
\* stack_append is only followed while the stack count stays within this
MaxStackTotal == 4
\* a waveform that is stacked, or has been, is followed up to this length
MaxStackSamples == MaxLen

----------------------------------------------------------------------------
(* Exact rational arithmetic.                                              *)

Abs(i) == IF i < 0 THEN -i ELSE i

RECURSIVE GCD(_, _)
GCD(a, b) == IF b = 0 THEN a ELSE GCD(b, a % b)

\* the rational n/d (d # 0) in lowest terms with a positive denominator
Rat(n, d) ==
    LET g == GCD(Abs(n), Abs(d))
        s == IF d < 0 THEN -1 ELSE 1
    IN  [n |-> (s * n) \div g, d |-> (s * d) \div g]

R(i) == [n |-> i, d |-> 1]

RAdd(x, y) == Rat(x.n * y.d + y.n * x.d, x.d * y.d)
RMul(x, y) == Rat(x.n * y.n, x.d * y.d)
RDiv(x, y) == Rat(x.n * y.d, x.d * y.n)
RLt(x, y) == x.n * y.d < y.n * x.d
RLe(x, y) == x.n * y.d <= y.n * x.d

\* int(np.round(x)): nearest integer, ties to the even neighbour
RoundHalfEven(x) ==
    LET f == x.n \div x.d
        r == x.n % x.d
    IN  IF 2 * r < x.d THEN f
        ELSE IF 2 * r > x.d THEN f + 1
        ELSE IF f % 2 = 0 THEN f ELSE f + 1

\* np.zeros(k)
Zeros(k) == [i \in 1..k |-> R(0)]

----------------------------------------------------------------------------
(* Inputs the calls are tried with.                                        *)

\* sample intervals dt > 0
DtSet == {R(1), Rat(1, 2)}

\* frequency steps handed to zero_pad: non-positive ones, ones whose
\* 1/(df*dt) is an integer, a tie (x.5) and a value below 1/2
DfSet == {R(-1), R(0), R(1), Rat(1, 2), Rat(2, 5), Rat(2, 3), Rat(1, 4), R(4)}

\* df arguments: numbers, and one argument that is not a number
DfInputs == {[type |-> "float", v |-> v] : v \in DfSet}
                \cup {[type |-> "str", v |-> R(1)]}

\* stack counts handed to the constructor
NStackSet == {1, 2}

\* amplitude sequences: value p[1] at odd and p[2] at even positions
Data(p, len) == [i \in 1..len |-> R(IF i % 2 = 1 THEN p[1] ELSE p[2])]

\* an amplitude argument: an array of ndim dimensions holding `data`
\* (for ndim = 2 a 1 x len array)
Amp(ndim, p, len) == [ndim |-> ndim, data |-> Data(p, len)]

\* amplitudes handed to the constructor: flat ones of every length up to
\* MaxLen (the empty one too), and a two-dimensional one
InitAmps ==
    {Amp(1, p, len) : p \in {<<1, 1>>, <<1, 3>>}, len \in 0..MaxLen}
        \cup {Amp(2, <<1, 1>>, 2)}

\* constructor arguments <<amplitude, dt, nstacks, delay>>: every amplitude,
\* dt and nstacks with no delay, and one recording with a negative and
\* with a positive delay
InitArgs ==
    {<<a, dt, n, R(0)>> : a \in InitAmps, dt \in DtSet, n \in NStackSet}
        \cup {<<Amp(1, <<1, 3>>, 2), Rat(1, 2), 1, d>> : d \in {R(-1), R(1)}}

\* the recordings stacked onto a waveform: values and stack count
Recordings == {[p |-> <<3, 3>>, w |-> 1], [p |-> <<5, 5>>, w |-> 2],
               [p |-> <<1, 3>>, w |-> 1]}

\* stack_append arguments <<amplitude, dt, nstacks>> for a waveform of n
\* samples and interval dt0: each recording at n samples with each dt, and
\* with dt0 one that is too short, one that is too long and a
\* two-dimensional one
AppendArgs(n, dt0) ==
    {<<Amp(1, r.p, n), dt, r.w>> : r \in Recordings, dt \in DtSet}
        \cup {<<Amp(1, <<3, 3>>, n - 1), dt0, 1>>,
              <<Amp(1, <<3, 3>>, n + 1), dt0, 1>>,
              <<Amp(2, <<3, 3>>, n), dt0, 1>>}

----------------------------------------------------------------------------
(* utprocess.TimeSeries                                                    *)

Raise(err, self) == [result |-> err, self |-> self]
Return(self) == [result |-> "ok", self |-> self]

\* TimeSeries.check_input: the argument is a list, tuple or array here, so
\* only the dimension test can fail
check_input(values) ==
    IF values.ndim > 1 THEN "TypeError" ELSE "ok"

\* the attributes of no object (a constructor that raised built nothing)
NoObject == [amp |-> <<>>, nsamples |-> 0, dt |-> R(0), fs |-> R(0),
             fnyq |-> R(0), df |-> R(0), nstack |-> 0, delay |-> R(0),
             multiple |-> 0]

\* TimeSeries.__init__ without its assert on delay
TimeSeries_init_no_assert(amplitude, dt, nstacks, delay) ==
    IF check_input(amplitude) # "ok" THEN Raise("TypeError", NoObject)
    ELSE IF dt.n = 0 \/ Len(amplitude.data) = 0
        THEN Raise("ZeroDivisionError", NoObject)
    ELSE LET fs == RDiv(R(1), dt)
             nsamples == Len(amplitude.data)
         IN  Return([amp |-> amplitude.data,
                     nsamples |-> nsamples,
                     dt |-> dt,
                     fs |-> fs,
                     fnyq |-> RMul(Rat(1, 2), fs),
                     df |-> RDiv(fs, R(nsamples)),
                     nstack |-> 1,
                     delay |-> delay,
                     multiple |-> 1])

\* TimeSeries.__init__
TimeSeries_init(amplitude, dt, nstacks, delay) ==
    IF check_input(amplitude) # "ok" THEN Raise("TypeError", NoObject)
    ELSE IF dt.n = 0 \/ Len(amplitude.data) = 0
        THEN Raise("ZeroDivisionError", NoObject)
    ELSE IF ~ RLe(delay, R(0)) THEN Raise("AssertionError", NoObject)
    ELSE LET fs == RDiv(R(1), dt)
             nsamples == Len(amplitude.data)
         IN  Return([amp |-> amplitude.data,
                     nsamples |-> nsamples,
                     dt |-> dt,
                     fs |-> fs,
                     fnyq |-> RMul(Rat(1, 2), fs),
                     df |-> RDiv(fs, R(nsamples)),
                     nstack |-> 1,
                     delay |-> delay,
                     multiple |-> 1])

\* nreq = int(np.round(1/(df*self.dt)))
Nreq(df, dt) == RoundHalfEven(RDiv(R(1), RMul(df, dt)))

multiples == <<1, 2, 4, 8, 16, 32>>

\* np.where with <= in place of <
WhereLessOrEqual(nsamples, nreq) ==
    {i \in 1..Len(multiples) : nsamples <= nreq * multiples[i]}

\* np.where(self.nsamples < trial_n)[0]: the indices of the candidates
\* nreq*multiples that exceed the present sample count
WhereLess(nsamples, nreq) ==
    {i \in 1..Len(multiples) : nsamples < nreq * multiples[i]}

\* [0] of an index array: its first (smallest) entry
First(S) == CHOOSE i \in S : \A j \in S : i <= j

\* zero_pad that cuts a long record down to nreq samples
zero_pad_truncate(self, df) ==
    IF df.type # "float" THEN Raise("TypeError", self)
    ELSE IF RLe(df.v, R(0)) THEN Raise("ValueError", self)
    ELSE LET nreq == Nreq(df.v, self.dt) IN
         IF nreq > self.nsamples
         THEN Return([self EXCEPT
                        !.amp = self.amp \o Zeros(nreq - self.nsamples),
                        !.nsamples = nreq])
         ELSE Return([self EXCEPT
                        !.amp = SubSeq(self.amp, 1, nreq),
                        !.nsamples = nreq])

\* TimeSeries.zero_pad
zero_pad(self, df) ==
    IF df.type # "float" THEN Raise("TypeError", self)
    ELSE IF RLe(df.v, R(0)) THEN Raise("ValueError", self)
    ELSE LET nreq == Nreq(df.v, self.dt) IN
         IF nreq > self.nsamples
         THEN Return([self EXCEPT
                        !.amp = self.amp \o Zeros(nreq - self.nsamples),
                        !.nsamples = nreq])
         ELSE LET found == WhereLess(self.nsamples, nreq) IN
              IF found = {} THEN Raise("IndexError", self)
              ELSE LET multiple == multiples[First(found)] IN
                   Return([self EXCEPT
                      !.multiple = multiple,
                      !.amp = self.amp
                                \o Zeros(nreq * multiple - self.nsamples),
                      !.nsamples = nreq * multiple])

\* the plain mean of the two sequences, whatever their stack counts
StackMeanUnweighted(amp, nstack, amplitude, nstacks) ==
    [i \in 1..Len(amp) |-> RDiv(RAdd(amp[i], amplitude[i]), R(2))]

\* (self.amp*self._nstack + amplitude*nstacks)/(self._nstack + nstacks)
StackMean(amp, nstack, amplitude, nstacks) ==
    [i \in 1..Len(amp) |->
        RDiv(RAdd(RMul(amp[i], R(nstack)), RMul(amplitude[i], R(nstacks))),
             R(nstack + nstacks))]

\* stack_append that counts the stacks before it compares the lengths
stack_append_count_first(self, amplitude, dt, nstacks) ==
    IF check_input(amplitude) # "ok" THEN Raise("TypeError", self)
    ELSE IF Len(amplitude.data) # Len(self.amp)
        THEN Raise("IndexError", [self EXCEPT !.nstack = self.nstack + nstacks])
    ELSE Return([self EXCEPT
                    !.amp = StackMean(self.amp, self.nstack,
                                      amplitude.data, nstacks),
                    !.nstack = self.nstack + nstacks])

\* stack_append that takes over the incoming sample interval
stack_append_adopt_dt(self, amplitude, dt, nstacks) ==
    IF check_input(amplitude) # "ok" THEN Raise("TypeError", self)
    ELSE IF Len(amplitude.data) # Len(self.amp) THEN Raise("IndexError", self)
    ELSE Return([self EXCEPT
                    !.amp = StackMean(self.amp, self.nstack,
                                      amplitude.data, nstacks),
                    !.nstack = self.nstack + nstacks,
                    !.dt = dt])

\* TimeSeries.stack_append; dt is accepted and never read
stack_append(self, amplitude, dt, nstacks) ==
    IF check_input(amplitude) # "ok" THEN Raise("TypeError", self)
    ELSE IF Len(amplitude.data) # Len(self.amp) THEN Raise("IndexError", self)
    ELSE Return([self EXCEPT
                    !.amp = StackMean(self.amp, self.nstack,
                                      amplitude.data, nstacks),
                    !.nstack = self.nstack + nstacks])

----------------------------------------------------------------------------
(* The calls made on the waveform.                                         *)

NoArg == [type |-> "none", v |-> R(0)]
NoAmp == [ndim |-> 0, data |-> <<>>]

CallRec(op, result, df, amplitude, dt, nstacks, delay) ==
    [op |-> op, result |-> result, df |-> df, amplitude |-> amplitude,
     dt |-> dt, nstacks |-> nstacks, delay |-> delay]

\* ghost record of a fresh waveform: the recording and the stack count the
\* constructor was given, nothing appended yet
Fresh(amplitude, nstacks) ==
    [clean |-> TRUE, amp0 |-> amplitude.data, w0 |-> nstacks,
     apps |-> EmptyBag]

\* ghost record once the waveform has been zero-padded
Padded == [clean |-> FALSE, amp0 |-> <<>>, w0 |-> 0, apps |-> EmptyBag]

NoCall == CallRec("none", "none", NoArg, NoAmp, R(0), 0, R(0))

\* ts = TimeSeries(amplitude, dt, nstacks, delay); a constructor that
\* raises leaves no object to call anything on
Construct(amplitude, dt, nstacks, delay) ==
    LET r == TimeSeries_init(amplitude, dt, nstacks, delay) IN
    /\ ts = r.self
    /\ call = CallRec("init", r.result, NoArg, amplitude, dt, nstacks, delay)
    /\ stacked = IF r.result = "ok" THEN Fresh(amplitude, nstacks)
                 ELSE Padded

Exists == ts # NoObject

\* ghost record of the zero_pad calls made in a row with one df
NoRun == [df |-> NoArg, count |-> 0]

\* the run after a zero_pad(df) call: one more success of the same df, or
\* a new run; the count stops one above the number of candidate multiples
NextRun(run, df, result) ==
    LET before == IF run.df = df THEN run.count ELSE 0
        top == Len(multiples) + 1
    IN  [df |-> df,
         count |-> IF result # "ok" THEN before
                   ELSE IF before + 1 > top THEN top ELSE before + 1]

\* ts.zero_pad(df)
ZeroPad ==
    /\ Exists
    /\ \E df \in DfInputs :
        LET r == zero_pad(ts, df) IN
        /\ r.self.nsamples <= (IF ts.nstack > 1 THEN MaxStackSamples
                               ELSE MaxSamples)
        /\ ts' = r.self
        /\ call' = CallRec("zero_pad", r.result, df, NoAmp, R(0), 0, R(0))
        /\ stacked' = IF r.result = "ok" THEN Padded ELSE stacked
        /\ padrun' = NextRun(padrun, df, r.result)
    /\ UNCHANGED <<sensor, scall, cmp, rx, peaks>>

\* ts.stack_append(amplitude, dt, nstacks)
StackAppend ==
    /\ Exists
    /\ ts.nsamples <= MaxStackSamples
    /\ \E args \in AppendArgs(ts.nsamples, ts.dt) :
        LET amplitude == args[1]
            dt == args[2]
            nstacks == args[3]
            r == stack_append(ts, amplitude, dt, nstacks)
        IN
        /\ r.self.nstack <= MaxStackTotal
        /\ ts' = r.self
        /\ call' = CallRec("stack_append", r.result, NoArg, amplitude, dt,
                           nstacks, R(0))
        /\ stacked' =
             IF r.result = "ok" /\ stacked.clean
             THEN [stacked EXCEPT !.apps =
                     @ (+) SetToBag({[amp |-> amplitude.data,
                                      w |-> nstacks]})]
             ELSE stacked
    /\ padrun' = NoRun
    /\ UNCHANGED <<sensor, scall, cmp, rx, peaks>>

----------------------------------------------------------------------------
(* swprocess.Sensor1C                                                      *)

\* int(x): the integer part, towards zero
ToInt(x) == IF x.n >= 0 THEN x.n \div x.d ELSE -((-x.n) \div x.d)

\* float(x): the same number
ToFloat(x) == x

\* str.upper on one character of the tags used here
UpperChar(c) ==
    CASE c = "s" -> "S" [] c = "u" -> "U" [] c = "e" -> "E"
      [] c = "g" -> "G" [] c = "m" -> "M" [] c = "d" -> "D"
      [] OTHER -> c

\* str.upper
Upper(str) == [i \in 1..Len(str) |-> UpperChar(str[i])]

SEG2 == <<"S", "E", "G", "2">>
SU == <<"S", "U">>

\* the format tags of the traces; NoTag is a trace without stats._format
NoTag == <<>>
Tags == {SU, <<"s", "u">>, SEG2, <<"s", "e", "g", "2">>,
         <<"M", "S", "E", "E", "D">>, NoTag}

NoHeader == [kind |-> "none"]

\* stats.su.trace_header: the four fields Sensor1C reads
SuHeaders ==
    {[kind |-> "su", stacked |-> k, delay_recording_time |-> d,
      group_coordinate_x |-> gx, group_coordinate_y |-> gy] :
        k \in {0, 4}, d \in {-2, 0, 3}, gx \in {12000, -1500, 250},
        gy \in {0, 6000}}

\* stats.seg2: the three fields Sensor1C reads
Seg2Headers ==
    {[kind |-> "seg2", STACK |-> k, DELAY |-> d, RECEIVER_LOCATION |-> x] :
        k \in {R(1), R(4)}, d \in {Rat(-1, 2), R(0), Rat(1, 2)},
        x \in {R(0), Rat(5, 2)}}

HeadersOf(tag) ==
    IF Upper(tag) = SU /\ tag # NoTag THEN SuHeaders
    ELSE IF Upper(tag) = SEG2 THEN Seg2Headers
    ELSE {NoHeader}

\* the traces handed to from_trace: data, stats.delta, stats._format and
\* a header, of the tag's convention or of another one
Traces ==
    {[data |-> Amp(1, <<1, 3>>, 2), delta |-> Rat(1, 2), format |-> tag,
      header |-> h] : tag \in Tags, h \in UNION {HeadersOf(t) : t \in Tags}}

\* the sensor's class and attributes: amplitude, dt, nstacks, delay, the
\* zero-pad multiple and the position
NoSensor == [cls |-> "Sensor1C", made |-> FALSE, amp |-> <<>>, dt |-> R(0),
             nstacks |-> 0, delay |-> R(0), multiple |-> 1,
             x |-> R(0), y |-> R(0), z |-> R(0)]

\* ActiveTimeSeries.__init__, the constructor Sensor1C inherits: it keeps
\* amplitude, dt, nstacks and delay, and refuses a delay above zero
ActiveTimeSeries_init(amplitude, dt, nstacks, delay) ==
    IF amplitude.ndim > 1 THEN Raise("TypeError", NoSensor)
    ELSE IF ~ RLe(delay, R(0)) THEN Raise("ValueError", NoSensor)
    ELSE Return([NoSensor EXCEPT !.made = TRUE, !.amp = amplitude.data,
                                 !.dt = dt, !.nstacks = nstacks,
                                 !.delay = delay])

\* Sensor1C._set_position
set_position(self, x, y, z) ==
    [self EXCEPT !.x = ToFloat(x), !.y = ToFloat(y), !.z = ToFloat(z)]

\* Sensor1C.__init__
Sensor1C_init(amplitude, dt, x, y, z, nstacks, delay) ==
    LET r == ActiveTimeSeries_init(amplitude, dt, nstacks, delay) IN
    IF r.result # "ok" THEN r
    ELSE Return(set_position(r.self, x, y, z))

\* from_trace with read_header=False that hands x and y over swapped
from_trace_no_header_swapped(trace, nstacks, delay, x, y, z) ==
    IF trace.format = NoTag THEN Raise("ValueError", NoSensor)
    ELSE Sensor1C_init(trace.data, trace.delta, y, x, z, nstacks, delay)

\* Sensor1C.from_trace with read_header=False
from_trace_no_header(trace, nstacks, delay, x, y, z) ==
    IF trace.format = NoTag THEN Raise("ValueError", NoSensor)
    ELSE Sensor1C_init(trace.data, trace.delta, x, y, z, nstacks, delay)

\* Sensor1C._from_trace_seg2
from_trace_seg2(trace) ==
    LET header == trace.header IN
    IF header.kind # "seg2" THEN Raise("AttributeError", NoSensor)
    ELSE from_trace_no_header(trace, ToInt(header.STACK),
                              ToFloat(header.DELAY),
                              ToFloat(header.RECEIVER_LOCATION), R(0), R(0))

\* Sensor1C._from_trace_su with the coordinates taken as they are
from_trace_su_raw(trace) ==
    LET header == trace.header IN
    IF header.kind # "su" THEN Raise("AttributeError", NoSensor)
    ELSE from_trace_no_header(trace,
            ToInt(R(header.stacked)) + 1,
            ToFloat(R(header.delay_recording_time)),
            ToFloat(R(header.group_coordinate_x)),
            ToFloat(R(header.group_coordinate_y)),
            R(0))

\* Sensor1C._from_trace_su
from_trace_su(trace) ==
    LET header == trace.header IN
    IF header.kind # "su" THEN Raise("AttributeError", NoSensor)
    ELSE from_trace_no_header(trace,
            ToInt(R(header.stacked)) + 1,
            ToFloat(R(header.delay_recording_time)),
            ToFloat(Rat(header.group_coordinate_x, 1000)),
            ToFloat(Rat(header.group_coordinate_y, 1000)),
            R(0))

\* from_trace that compares the tag as it is spelled
from_trace_case_sensitive(trace, read_header, nstacks, delay, x, y, z) ==
    IF trace.format = NoTag THEN Raise("ValueError", NoSensor)
    ELSE LET format == trace.format IN
         IF read_header
         THEN IF format = SEG2 THEN from_trace_seg2(trace)
              ELSE IF format = SU THEN from_trace_su(trace)
              ELSE Raise("NotImplementedError", NoSensor)
         ELSE from_trace_no_header(trace, nstacks, delay, x, y, z)

\* Sensor1C.from_trace
from_trace(trace, read_header, nstacks, delay, x, y, z) ==
    IF trace.format = NoTag THEN Raise("ValueError", NoSensor)
    ELSE LET format == Upper(trace.format) IN
         IF read_header
         THEN IF format = SEG2 THEN from_trace_seg2(trace)
              ELSE IF format = SU THEN from_trace_su(trace)
              ELSE Raise("NotImplementedError", NoSensor)
         ELSE from_trace_no_header(trace, nstacks, delay, x, y, z)

\* what the caller passes besides the trace: <<nstacks, delay, x, y, z>>
CallerArgs ==
    {<<1, R(0), R(0), R(0), R(0)>>,
     <<3, R(-1), R(2), Rat(-7, 2), R(1)>>,
     <<2, R(1), R(2), R(0), R(0)>>}

SCallRec(op, result, trace, read_header, args) ==
    [op |-> op, result |-> result, trace |-> trace,
     read_header |-> read_header, nstacks |-> args[1], delay |-> args[2],
     x |-> args[3], y |-> args[4], z |-> args[5]]

NoSensorCall ==
    SCallRec("none", "none",
             [data |-> NoAmp, delta |-> R(0), format |-> NoTag,
              header |-> NoHeader],
             FALSE, <<0, R(0), R(0), R(0), R(0)>>)

\* ActiveTimeSeries._is_similar, which Sensor1C._is_similar ends with:
\* another waveform whose dt, nstacks and delay are the same, except those
\* named in exclude
ActiveTimeSeries_is_similar(self, other, exclude) ==
    /\ other.cls \in {"ActiveTimeSeries", "Sensor1C"}
    /\ \A attr \in {"dt", "nstacks", "delay"} \ exclude :
            self[attr] = other[attr]

\* _is_similar that compares x and y only
Sensor1C_is_similar_xy(self, other, exclude) ==
    IF other.cls # "Sensor1C" THEN FALSE
    ELSE IF \E attr \in {"x", "y"} \ exclude : self[attr] # other[attr]
        THEN FALSE
    ELSE ActiveTimeSeries_is_similar(self, other, exclude)

\* _is_similar that compares x, y and z whatever exclude names
Sensor1C_is_similar_all(self, other, exclude) ==
    IF other.cls # "Sensor1C" THEN FALSE
    ELSE IF \E attr \in {"x", "y", "z"} : self[attr] # other[attr]
        THEN FALSE
    ELSE ActiveTimeSeries_is_similar(self, other, exclude)

\* Sensor1C._is_similar
Sensor1C_is_similar(self, other, exclude) ==
    IF other.cls # "Sensor1C" THEN FALSE
    ELSE IF \E attr \in {"x", "y", "z"} \ exclude : self[attr] # other[attr]
        THEN FALSE
    ELSE ActiveTimeSeries_is_similar(self, other, exclude)

\* ActiveTimeSeries.__eq__ called on a sensor: self._is_similar(other),
\* which is the sensor's own _is_similar, and the same amplitudes
ActiveTimeSeries_eq(self, other) ==
    /\ Sensor1C_is_similar(self, other, {})
    /\ self.amp = other.amp

\* Sensor1C.__eq__
Sensor1C_eq(self, other) ==
    IF ~ ActiveTimeSeries_eq(self, other) THEN FALSE ELSE TRUE

\* from_sensor1c that hands x and y over swapped
from_sensor1c_swapped(sensor1c) ==
    Sensor1C_init([ndim |-> 1, data |-> sensor1c.amp], sensor1c.dt,
                  sensor1c.y, sensor1c.x, sensor1c.z,
                  sensor1c.nstacks, sensor1c.delay)

\* Sensor1C.from_sensor1c
from_sensor1c(sensor1c) ==
    Sensor1C_init([ndim |-> 1, data |-> sensor1c.amp], sensor1c.dt,
                  sensor1c.x, sensor1c.y, sensor1c.z,
                  sensor1c.nstacks, sensor1c.delay)

\* ActiveTimeSeries.stack_append, inherited by the sensor: the weighted
\* mean with the incoming sequence of the same length
ActiveTimeSeries_stack_append(self, amplitude, nstacks) ==
    IF Len(amplitude.data) # Len(self.amp) THEN Raise("IndexError", self)
    ELSE Return([self EXCEPT
                    !.amp = StackMean(self.amp, self.nstacks,
                                      amplitude.data, nstacks),
                    !.nstacks = self.nstacks + nstacks])

\* ActiveTimeSeries.zero_pad, inherited by the sensor: zeros appended up
\* to the required count or its smallest multiple above the present count
ActiveTimeSeries_zero_pad(self, df) ==
    IF RLe(df, R(0)) THEN Raise("ValueError", self)
    ELSE LET nreq == Nreq(df, self.dt)
             nsamples == Len(self.amp)
         IN  IF nreq > nsamples
             THEN Return([self EXCEPT
                            !.amp = self.amp \o Zeros(nreq - nsamples),
                            !.multiple = 1])
             ELSE LET found == WhereLess(nsamples, nreq) IN
                  IF found = {} THEN Raise("ValueError", self)
                  ELSE LET multiple == multiples[First(found)] IN
                       Return([self EXCEPT
                          !.amp = self.amp
                                    \o Zeros(nreq * multiple - nsamples),
                          !.multiple = multiple])

\* the objects a sensor is compared with: itself rebuilt from the same
\* arguments, sensors with one or two attributes changed, and a waveform
\* that is no sensor
Others(self) ==
    {self,
     [self EXCEPT !.x = RAdd(self.x, R(1))],
     [self EXCEPT !.y = RAdd(self.y, R(1))],
     [self EXCEPT !.z = RAdd(self.z, R(1))],
     [self EXCEPT !.x = RAdd(self.x, R(1)), !.y = RAdd(self.y, R(1))],
     [self EXCEPT !.amp = [self.amp EXCEPT ![1] = RAdd(self.amp[1], R(1))]],
     [self EXCEPT !.dt = RMul(self.dt, R(2))],
     [self EXCEPT !.nstacks = self.nstacks + 1],
     [self EXCEPT !.delay = RAdd(self.delay, R(-1))],
     [self EXCEPT !.cls = "ActiveTimeSeries"]}

\* the exclude lists of _is_similar
Excludes == {{}, {"x"}, {"y"}, {"z"}, {"x", "y"}, {"nstacks"}}

\* what is stacked onto a sensor: <<amplitude, nstacks>>
SensorRecordings == {<<Amp(1, <<5, 5>>, 2), 2>>, <<Amp(1, <<1, 1, 1>>, 3), 1>>}

\* the df asked of a sensor's zero_pad
SensorDfSet == {R(1), Rat(1, 2), R(0)}

CmpRec(op, result, other, exclude, answer) ==
    [op |-> op, result |-> result, other |-> other, exclude |-> exclude,
     answer |-> answer]

NoCmp == CmpRec("none", "none", NoSensor, {}, FALSE)

\* sensor = Sensor1C.from_trace(trace, read_header, nstacks, delay, x, y, z),
\* the call that builds the sensor of a behaviour (a class method: it reads
\* no earlier sensor)
FromTrace ==
    /\ scall.op = "none"
    /\ \E trace \in Traces, read_header \in BOOLEAN, args \in CallerArgs :
        LET r == from_trace(trace, read_header, args[1], args[2], args[3],
                            args[4], args[5])
        IN  /\ sensor' = r.self
            /\ scall' = SCallRec("from_trace", r.result, trace, read_header,
                                 args)
    /\ cmp' = NoCmp
    /\ UNCHANGED <<ts, call, stacked, rx, peaks, padrun>>

\* sensor == other, on the sensor as from_trace built it
Eq ==
    /\ sensor.made /\ cmp.op = "none"
    /\ \E other \in Others(sensor) :
        cmp' = CmpRec("eq", "ok", other, {}, Sensor1C_eq(sensor, other))
    /\ UNCHANGED <<ts, call, stacked, sensor, scall, rx, peaks, padrun>>

\* sensor._is_similar(other, exclude), on the sensor as from_trace built it
IsSimilar ==
    /\ sensor.made /\ cmp.op = "none"
    /\ \E other \in Others(sensor), exclude \in Excludes :
        cmp' = CmpRec("is_similar", "ok", other, exclude,
                      Sensor1C_is_similar(sensor, other, exclude))
    /\ UNCHANGED <<ts, call, stacked, sensor, scall, rx, peaks, padrun>>

\* sensor.stack_append(amplitude, nstacks=nstacks)
SensorStackAppend ==
    /\ sensor.made /\ cmp.op \notin {"eq", "is_similar"}
    /\ Len(sensor.amp) <= MaxStackSamples
    /\ \E rec \in SensorRecordings :
        LET r == ActiveTimeSeries_stack_append(sensor, rec[1], rec[2])
        IN  /\ r.self.nstacks <= MaxStackTotal + 1
            /\ sensor' = r.self
            /\ cmp' = CmpRec("stack_append", r.result, NoSensor, {}, FALSE)
    /\ UNCHANGED <<ts, call, stacked, scall, rx, peaks, padrun>>

\* sensor.zero_pad(df)
SensorZeroPad ==
    /\ sensor.made /\ cmp.op \notin {"eq", "is_similar"}
    /\ Len(sensor.amp) <= MaxStackSamples
    /\ \E df \in SensorDfSet :
        LET r == ActiveTimeSeries_zero_pad(sensor, df)
        IN  /\ sensor' = r.self
            /\ cmp' = CmpRec("zero_pad", r.result, NoSensor, {}, FALSE)
    /\ UNCHANGED <<ts, call, stacked, scall, rx, peaks, padrun>>

\* copy = Sensor1C.from_sensor1c(sensor); the copy is kept in cmp.other
FromSensor1c ==
    /\ sensor.made /\ cmp.op \notin {"eq", "is_similar", "from_sensor1c"}
    /\ LET r == from_sensor1c(sensor)
       IN  cmp' = CmpRec("from_sensor1c", r.result, r.self, {}, FALSE)
    /\ UNCHANGED <<ts, call, stacked, sensor, scall, rx, peaks, padrun>>

----------------------------------------------------------------------------
(* regex.py: the patterns for the lines of a .max file. A string is the    *)
(* sequence of its characters; a pattern is the sequence of the elements   *)
(* its text denotes: a quantified character class, the opening or the      *)
(* closing of a capturing group, or an alternation.                        *)

LowerLetters == <<"a", "b", "c", "d", "e", "f", "g", "h", "i", "j", "k", "l",
                  "m", "n", "o", "p", "q", "r", "s", "t", "u", "v", "w", "x",
                  "y", "z">>
UpperLetters == <<"A", "B", "C", "D", "E", "F", "G", "H", "I", "J", "K", "L",
                  "M", "N", "O", "P", "Q", "R", "S", "T", "U", "V", "W", "X",
                  "Y", "Z">>

IndexIn(letters, c) == CHOOSE i \in 1..Len(letters) : letters[i] = c

\* str.upper and str.lower on one character
ToUpper(c) ==
    IF \E i \in 1..Len(LowerLetters) : LowerLetters[i] = c
    THEN UpperLetters[IndexIn(LowerLetters, c)] ELSE c
ToLower(c) ==
    IF \E i \in 1..Len(UpperLetters) : UpperLetters[i] = c
    THEN LowerLetters[IndexIn(UpperLetters, c)] ELSE c

\* str.capitalize: the first character upper-cased, the rest lower-cased
capitalize(str) ==
    [i \in 1..Len(str) |-> IF i = 1 THEN ToUpper(str[i]) ELSE ToLower(str[i])]

Digits == {"0", "1", "2", "3", "4", "5", "6", "7", "8", "9"}

\* a character class with its quantifier {min,max}; max = -1 is unbounded
Cls(set, min, max) ==
    [t |-> "cls", any |-> FALSE, set |-> set, min |-> min, max |-> max]
\* . with its quantifier: any character (no line holds a newline)
Dot(min, max) ==
    [t |-> "cls", any |-> TRUE, set |-> {}, min |-> min, max |-> max]
\* ( and ) of capturing group g
Open(g) == [t |-> "open", g |-> g]
Close(g) == [t |-> "close", g |-> g]
\* a|b|c
Alt(alts) == [t |-> "alt", alts |-> alts]
\* the characters of str, each matched as itself
Literal(str) == [i \in 1..Len(str) |-> Cls({str[i]}, 1, 1)]

\* \d+\.?\d*
Unsigned == <<Cls(Digits, 1, -1), Cls({"."}, 0, 1), Cls(Digits, 0, -1)>>

\* number = "-?\d+.?\d*[eE]?[+-]?\d*"
number ==
    <<Cls({"-"}, 0, 1), Cls(Digits, 1, -1), Dot(0, 1), Cls(Digits, 0, -1),
      Cls({"e", "E"}, 0, 1), Cls({"+", "-"}, 0, 1), Cls(Digits, 0, -1)>>

\* (...) as capturing group g
Group(g, body) == <<Open(g)>> \o body \o <<Close(g)>>

\* the default of the parameter time, "(\d+\.?\d*)", and a time of interest
DefaultTime == Group(1, Unsigned)
Times == {DefaultTime, Literal(<<"3">>)}

\* the number of capturing groups in the text of time
GroupsIn(time) == Cardinality({i \in 1..Len(time) : time[i].t = "open"})

\* f"{time} (\d+\.?\d*) {wavetype} ({number}) ({number}) ({number})
\*   (\d+\.?\d*|-?inf|nan) (\d+\.?\d*) 1" with the flag captured as well
StrictPatternFlagCaptured(time, wavetype) ==
    LET g == GroupsIn(time)
        sp == Literal(<<" ">>)
    IN  time \o sp \o Group(g + 1, Unsigned) \o sp \o Literal(wavetype) \o sp
        \o Group(g + 2, number) \o sp \o Group(g + 3, number) \o sp
        \o Group(g + 4, number) \o sp
        \o Group(g + 5, <<Alt(<<Unsigned,
                               <<Cls({"-"}, 0, 1)>> \o Literal(<<"i", "n", "f">>),
                               Literal(<<"n", "a", "n">>)>>)>>)
        \o sp \o Group(g + 6, Unsigned) \o sp \o Group(g + 7, Literal(<<"1">>))

\* f"{time} (\d+\.?\d*) {wavetype} ({number}) ({number}) ({number})
\*   (\d+\.?\d*|-?inf|nan) (\d+\.?\d*) 1"
StrictPattern(time, wavetype) ==
    LET g == GroupsIn(time)
        sp == Literal(<<" ">>)
    IN  time \o sp \o Group(g + 1, Unsigned) \o sp \o Literal(wavetype) \o sp
        \o Group(g + 2, number) \o sp \o Group(g + 3, number) \o sp
        \o Group(g + 4, number) \o sp
        \o Group(g + 5, <<Alt(<<Unsigned,
                               <<Cls({"-"}, 0, 1)>> \o Literal(<<"i", "n", "f">>),
                               Literal(<<"n", "a", "n">>)>>)>>)
        \o sp \o Group(g + 6, Unsigned) \o sp \o Literal(<<"1">>)

\* f"{time} .* {wavetype} .* 1"
LoosePattern(time, wavetype) ==
    LET sp == Literal(<<" ">>)
    IN  time \o sp \o <<Dot(0, -1)>> \o sp \o Literal(wavetype) \o sp
        \o <<Dot(0, -1)>> \o sp \o Literal(<<"1">>)

Vocabulary ==
    {<<"r", "a", "y", "l", "e", "i", "g", "h">>,
     <<"l", "o", "v", "e">>,
     <<"v", "e", "r", "t", "i", "c", "a", "l">>,
     <<"r", "a", "d", "i", "a", "l">>,
     <<"t", "r", "a", "n", "s", "v", "e", "r", "s", "e">>}

\* regex.get_peak_from_max
get_peak_from_max(wavetype, time) ==
    StrictPattern(time,
                  IF wavetype \in Vocabulary THEN capitalize(wavetype)
                  ELSE wavetype)

\* regex.get_all
get_all(wavetype, time) == LoosePattern(time, capitalize(wavetype))

\* whether the character c is in the class of element e
InClass(c, e) == e.any \/ c \in e.set

\* how many characters of s from pos on are in the class of e, up to the
\* quantifier's max
Run(s, pos, e) ==
    LET left == Len(s) - pos + 1
        limit == IF e.max # -1 /\ e.max < left THEN e.max ELSE left
    IN  CHOOSE k \in 0..limit :
            /\ \A j \in 1..k : InClass(s[pos + j - 1], e)
            /\ k = limit \/ ~ InClass(s[pos + k], e)

\* the trials of re's backtracking are kept as a sequence in the order in
\* which re makes them; a trial is the position reached in s and the
\* bounds of the groups on its way

\* a greedy quantifier: the longest run first, then one character less
Expand(trial, e, s) ==
    LET most == Run(s, trial.pos, e) IN
    IF most < e.min THEN <<>>
    ELSE [n \in 1..(most - e.min + 1) |->
            [trial EXCEPT !.pos = trial.pos + most - n + 1]]

RECURSIVE Flatten(_)
\* the sequences of ss one after the other
Flatten(ss) ==
    IF Len(ss) = 0 THEN <<>>
    ELSE IF Len(ss) = 1 THEN ss[1]
    ELSE LET h == Len(ss) \div 2 IN
         Flatten(SubSeq(ss, 1, h)) \o Flatten(SubSeq(ss, h + 1, Len(ss)))

\* a trial that reaches a position an earlier trial has reached can only
\* repeat what the earlier one finds from there: the earlier one is kept
Earliest(trials) ==
    LET kept == {i \in 1..Len(trials) :
                    \A j \in 1..(i - 1) : trials[j].pos # trials[i].pos}
    IN  [n \in 1..Cardinality(kept) |->
            trials[CHOOSE i \in kept :
                     Cardinality({j \in kept : j < i}) = n - 1]]

\* the sequence written out element by element
Listed(seq) == SubSeq(seq, 1, Len(seq))

RECURSIVE Step(_, _, _), Thread(_, _, _)
\* the trials after the element e, from the trials before it
Step(trials, e, s) ==
    Listed(
    CASE e.t = "open" ->
            [i \in 1..Len(trials) |->
                [trials[i] EXCEPT
                    !.caps[e.g] = <<trials[i].pos, trials[i].pos>>]]
      [] e.t = "close" ->
            [i \in 1..Len(trials) |->
                [trials[i] EXCEPT !.caps[e.g] = <<@[1], trials[i].pos>>]]
      [] e.t = "alt" ->
            Earliest(Flatten(
                [i \in 1..Len(trials) |->
                    Flatten([j \in 1..Len(e.alts) |->
                                Thread(e.alts[j], <<trials[i]>>, s)])]))
      [] OTHER ->
            Earliest(Flatten([i \in 1..Len(trials) |->
                                Expand(trials[i], e, s)])))

\* the trials after the elements p, from the trials before them; with no
\* trial left the match has failed
Thread(p, trials, s) ==
    IF trials = <<>> \/ Len(p) = 0 THEN trials
    ELSE IF Len(p) = 1 THEN Step(trials, p[1], s)
    ELSE LET h == Len(p) \div 2
             before == Thread(SubSeq(p, 1, h), trials, s)
         IN  IF before = <<>> THEN <<>>
             ELSE Thread(SubSeq(p, h + 1, Len(p)), before, s)

\* the number of capturing groups of the pattern p
Groups(p) == Cardinality({i \in 1..Len(p) : p[i].t = "open"})

NoResult == [matched |-> FALSE, groups |-> <<>>]

\* pattern.search(s): the first match re finds, trying the start positions
\* from the left, and the text of its groups
search(p, s) ==
    LET final == Thread(p,
                        [i \in 1..(Len(s) + 1) |->
                            [pos |-> i,
                             caps |-> [g \in 1..Groups(p) |-> <<0, 0>>]]],
                        s)
    IN  IF final = <<>> THEN NoResult
        ELSE [matched |-> TRUE,
              groups |-> [g \in 1..Groups(p) |->
                            SubSeq(s, final[1].caps[g][1],
                                   final[1].caps[g][2] - 1)]]

\* the wave types the patterns are asked for: the vocabulary and two
\* labels outside it
Wavetypes == Vocabulary \cup {<<"c", "u", "s", "t", "o", "m">>, <<"L", "o", "v", "e">>}

\* the lines of a .max file, field by field
Lines ==
    [time : {<<"1", "2", ".", "5">>, <<"3">>},
     frequency : {<<"0", ".", "0", "4", "5">>},
     label : {<<"R", "a", "y", "l", "e", "i", "g", "h">>, <<"L", "o", "v", "e">>}
             \cup {<<"l", "o", "v", "e">>, <<"C", "u", "s", "t", "o", "m">>},
     a : {<<"-", "3", ".", "2", "e", "-", "0", "1">>, <<"4">>},
     b : {<<"4", ".", "5", "e", "+", "0", "0">>},
     c : {<<"-", "1", ".", "0", "e", "+", "0", "0">>},
     qa : {<<"0", ".", "9", "5">>, <<"i", "n", "f">>}
          \cup {<<"-", "i", "n", "f">>, <<"n", "a", "n">>},
     qb : {<<"0", ".", "8", "8">>},
     flag : {<<"1">>}]

\* the text of a line: its fields with one space between them
Text(line) ==
    LET sp == <<" ">>
    IN  line.time \o sp \o line.frequency \o sp \o line.label \o sp
        \o line.a \o sp \o line.b \o sp \o line.c \o sp \o line.qa \o sp
        \o line.qb \o sp \o line.flag

NoLine ==
    [time |-> <<>>, frequency |-> <<>>, label |-> <<>>, a |-> <<>>,
     b |-> <<>>, c |-> <<>>, qa |-> <<>>, qb |-> <<>>, flag |-> <<>>]

RxRec(fn, wavetype, time, pattern, line, result) ==
    [fn |-> fn, wavetype |-> wavetype, time |-> time, pattern |-> pattern,
     line |-> line, result |-> result]

NoRx == RxRec("none", <<>>, <<>>, <<>>, NoLine, NoResult)

\* pattern = get_peak_from_max(wavetype, time)
GetPeakFromMax ==
    /\ rx.fn = "none"
    /\ \E wavetype \in Wavetypes, time \in Times :
        rx' = RxRec("get_peak_from_max", wavetype, time,
                    get_peak_from_max(wavetype, time), NoLine, NoResult)
    /\ UNCHANGED <<ts, call, stacked, sensor, scall, cmp, peaks, padrun>>

\* pattern = get_all(wavetype, time)
GetAll ==
    /\ rx.fn = "none"
    /\ \E wavetype \in Wavetypes, time \in Times :
        rx' = RxRec("get_all", wavetype, time, get_all(wavetype, time),
                    NoLine, NoResult)
    /\ UNCHANGED <<ts, call, stacked, sensor, scall, cmp, peaks, padrun>>

\* pattern.search(line), of the pattern last compiled
SearchLine ==
    /\ rx.fn # "none" /\ rx.line = NoLine
    /\ \E line \in Lines :
        rx' = [rx EXCEPT !.line = line,
                         !.result = search(rx.pattern, Text(line))]
    /\ UNCHANGED <<ts, call, stacked, sensor, scall, cmp, peaks, padrun>>

----------------------------------------------------------------------------
(* Peaks, as test_peaks.py uses it: the peaks' frequency and velocity,     *)
(* entry by entry.                                                         *)

\* np.nan
NaN == [n |-> 0, d |-> 0]
IsNaN(v) == v.d = 0

\* a limit: None or a number
None == [none |-> TRUE, v |-> R(0)]
Limit(v) == [none |-> FALSE, v |-> v]

RECURSIVE Masked(_, _)
\* array[mask]: the entries of array where mask is True, in their order
Masked(array, mask) ==
    IF array = <<>> THEN <<>>
    ELSE (IF Head(mask) THEN <<Head(array)>> ELSE <<>>)
         \o Masked(Tail(array), Tail(mask))

PeaksRec(made, frequency, velocity, op, attribute, limits) ==
    [made |-> made, frequency |-> frequency, velocity |-> velocity,
     op |-> op, attribute |-> attribute, limits |-> limits]

NoPeaks == PeaksRec(FALSE, <<>>, <<>>, "none", "none", <<None, None>>)

\* Peaks(frequency, velocity): the entries that are not NaN
Peaks_init(frequency, velocity) ==
    LET valid == [i \in 1..Len(frequency) |->
                    ~ IsNaN(frequency[i]) /\ ~ IsNaN(velocity[i])]
    IN  PeaksRec(TRUE, Masked(frequency, valid), Masked(velocity, valid),
                 "init", "none", <<None, None>>)

\* reject_limits_outside that takes the peaks out of the named attribute
\* only
reject_limits_outside_named_only(self, attribute, limits) ==
    LET values == self[attribute]
        inside == [i \in 1..Len(values) |->
                    /\ limits[1].none \/ RLe(limits[1].v, values[i])
                    /\ limits[2].none \/ RLe(values[i], limits[2].v)]
    IN  [self EXCEPT ![attribute] = Masked(values, inside),
                     !.op = "reject_limits_outside",
                     !.attribute = attribute, !.limits = limits]

\* Peaks.reject_limits_outside(attribute, limits)
reject_limits_outside(self, attribute, limits) ==
    LET values == self[attribute]
        inside == [i \in 1..Len(values) |->
                    /\ limits[1].none \/ RLe(limits[1].v, values[i])
                    /\ limits[2].none \/ RLe(values[i], limits[2].v)]
    IN  [self EXCEPT !.frequency = Masked(self.frequency, inside),
                     !.velocity = Masked(self.velocity, inside),
                     !.op = "reject_limits_outside",
                     !.attribute = attribute, !.limits = limits]

\* fs and vs of test_reject_limits_outside
TestFs == <<R(1), R(5), R(9), NaN, R(3), R(5), R(7), R(4), R(6), R(2), R(8)>>
TestVs == <<R(1), R(9), R(4), NaN, R(5), R(6), R(8), R(5), R(2), R(1), R(4)>>

\* what Peaks are built from: <<frequency, velocity>>
PeaksInputs ==
    {<<TestFs, TestVs>>,
     <<<<R(2), R(6), R(2)>>, <<R(3), R(1), R(7)>>>>,
     <<<<NaN, R(5)>>, <<NaN, R(5)>>>>,
     <<<<NaN>>, <<NaN>>>>}

\* the limits of test_reject_limits_outside and their other pairings
LimitsSet ==
    {<<lower, upper>> :
        lower \in {None, Limit(Rat(3, 2)), Limit(Rat(9, 2))},
        upper \in {None, Limit(Rat(9, 2)), Limit(Rat(13, 2))}}

\* peaks = Peaks(frequency, velocity)
NewPeaks ==
    /\ ~ peaks.made
    /\ \E in \in PeaksInputs : peaks' = Peaks_init(in[1], in[2])
    /\ UNCHANGED <<ts, call, stacked, sensor, scall, cmp, rx, padrun>>

\* peaks.reject_limits_outside(attribute, limits)
RejectLimitsOutside ==
    /\ peaks.made
    /\ \E attribute \in {"frequency", "velocity"}, limits \in LimitsSet :
        peaks' = reject_limits_outside(peaks, attribute, limits)
    /\ UNCHANGED <<ts, call, stacked, sensor, scall, cmp, rx, padrun>>

----------------------------------------------------------------------------
(* The waveform's life: one constructor call, then any calls on it.        *)

\* TimeSeries.from_trace_seg2
TimeSeries_from_trace_seg2(trace) ==
    IF trace.header.kind # "seg2" THEN Raise("AttributeError", NoObject)
    ELSE TimeSeries_init(trace.data, trace.delta,
                         ToInt(trace.header.STACK),
                         ToFloat(trace.header.DELAY))

\* the SEG2 traces a waveform is built from: each STACK and DELAY
Seg2Traces ==
    {t \in Traces : /\ t.format = SEG2 /\ t.header.kind = "seg2"
                    /\ t.header.RECEIVER_LOCATION = R(0)}

\* ts = TimeSeries.from_trace_seg2(trace): the constructor call it makes is
\* the waveform's call, the trace is kept with the class-method call
ConstructFromSeg2(trace) ==
    LET r == TimeSeries_from_trace_seg2(trace)
        nstacks == ToInt(trace.header.STACK)
    IN  /\ ts = r.self
        /\ call = CallRec("init", r.result, NoArg, trace.data, trace.delta,
                          nstacks, ToFloat(trace.header.DELAY))
        /\ stacked = IF r.result = "ok" THEN Fresh(trace.data, nstacks)
                     ELSE Padded
        /\ scall = SCallRec("TimeSeries.from_trace_seg2", r.result, trace,
                            TRUE, <<1, R(0), R(0), R(0), R(0)>>)

Init ==
    /\ \/ /\ \E args \in InitArgs :
                Construct(args[1], args[2], args[3], args[4])
          /\ scall = NoSensorCall
       \/ \E trace \in Seg2Traces : ConstructFromSeg2(trace)
    /\ sensor = NoSensor
    /\ cmp = NoCmp
    /\ rx = NoRx
    /\ peaks = NoPeaks
    /\ padrun = NoRun

Next == ZeroPad \/ StackAppend

Spec == Init /\ [][Next]_vars

----------------------------------------------------------------------------
(* The sensors built from traces: no waveform, one from_trace call.        *)

SensorInit ==
    /\ ts = NoObject
    /\ call = NoCall
    /\ stacked = Padded
    /\ sensor = NoSensor
    /\ scall = NoSensorCall
    /\ cmp = NoCmp
    /\ rx = NoRx
    /\ peaks = NoPeaks
    /\ padrun = NoRun

SensorNext ==
    \/ FromTrace
    \/ Eq
    \/ IsSimilar
    \/ SensorStackAppend
    \/ SensorZeroPad
    \/ FromSensor1c

SensorSpec == SensorInit /\ [][SensorNext]_vars

----------------------------------------------------------------------------
(* The patterns: one is compiled, then a line is searched with it.         *)

RegexNext ==
    \/ GetPeakFromMax
    \/ GetAll
    \/ SearchLine

RegexSpec == SensorInit /\ [][RegexNext]_vars

----------------------------------------------------------------------------
(* The peaks: built once, then filtered by limits any number of times.     *)

PeaksNext ==
    \/ NewPeaks
    \/ RejectLimitsOutside

PeaksSpec == SensorInit /\ [][PeaksNext]_vars

----------------------------------------------------------------------------
(* Properties of the waveform engine.                                      *)

\* the step just taken was a call of op on the waveform
Called(op) == call'.op = op
CalledOk(op) == call'.op = op /\ call'.result = "ok"

\* the candidate multiples of zero_pad, as a set
MultipleSet == {1, 2, 4, 8, 16, 32}

\* C1: a successful zero_pad never lowers the sample count, keeps the old
\* amplitude values as the first (old sample count) values in the same
\* order and appends only zeros, however many zero_pad calls came before.
C1_PaddingGrows ==
    [][CalledOk("zero_pad") =>
        /\ ts'.nsamples >= ts.nsamples
        /\ SubSeq(ts'.amp, 1, ts.nsamples) = ts.amp
        /\ \A i \in (ts.nsamples + 1)..Len(ts'.amp) : ts'.amp[i] = R(0)]_vars

\* a zero_pad that chose the multiple 32: the record was padded several
\* times in succession, and holds old values followed by zeros
C1_Witness ==
    /\ call.op = "zero_pad" /\ call.result = "ok"
    /\ ts.multiple = 32
    /\ ts.amp[1] # R(0) /\ ts.amp[ts.nsamples] = R(0)

\* C2 (as claimed): a zero_pad whose nreq exceeds the sample count leaves
\* nsamples = nreq and multiple = 1, whatever was done to the waveform
\* before.
C2_PadToRequiredResetsMultiple ==
    [][(/\ CalledOk("zero_pad")
        /\ Nreq(call'.df.v, ts.dt) > ts.nsamples) =>
        /\ ts'.nsamples = Nreq(call'.df.v, ts.dt)
        /\ ts'.multiple = 1]_vars

\* C3: a zero_pad with a positive df whose nreq does not exceed the sample
\* count chooses the smallest m of {1,2,4,8,16,32} with nsamples < nreq*m
\* and ends with nreq*m samples; when there is no such m it raises and
\* neither pads nor truncates.
C3_MultipleSelection ==
    [][(/\ Called("zero_pad")
        /\ call'.df.type = "float" /\ RLt(R(0), call'.df.v)
        /\ Nreq(call'.df.v, ts.dt) <= ts.nsamples) =>
        LET nreq == Nreq(call'.df.v, ts.dt)
            fits == {m \in MultipleSet : ts.nsamples < nreq * m}
        IN  IF fits # {}
            THEN /\ call'.result = "ok"
                 /\ ts'.multiple \in fits
                 /\ \A m \in fits : ts'.multiple <= m
                 /\ ts'.nsamples = nreq * ts'.multiple
            ELSE /\ call'.result # "ok"
                 /\ ts'.amp = ts.amp
                 /\ ts'.nsamples = ts.nsamples]_vars

\* a zero_pad that found no multiple for an nreq of at least one, on a
\* record the call before had padded with the multiple 32
C3_Witness ==
    /\ call.op = "zero_pad" /\ call.result = "IndexError"
    /\ Nreq(call.df.v, ts.dt) >= 1
    /\ ts.nsamples >= 32 * Nreq(call.df.v, ts.dt)
    /\ ts.multiple = 32

\* C4: stack_append of a flat sequence as long as the waveform succeeds,
\* replaces every sample by (current*count + incoming*nstacks) /
\* (count + nstacks) and raises the stack count by nstacks.
C4_StackAppendMean ==
    [][(/\ Called("stack_append")
        /\ call'.amplitude.ndim = 1
        /\ Len(call'.amplitude.data) = Len(ts.amp)) =>
        /\ call'.result = "ok"
        /\ Len(ts'.amp) = Len(ts.amp)
        /\ \A i \in 1..Len(ts.amp) :
             RMul(ts'.amp[i], R(ts.nstack + call'.nstacks))
               = RAdd(RMul(ts.amp[i], R(ts.nstack)),
                      RMul(call'.amplitude.data[i], R(call'.nstacks)))
        /\ ts'.nstack = ts.nstack + call'.nstacks]_vars

\* [1,1,1] (count 1), then [3,3,3] with count 1, then [5,5,5] with count 2:
\* [3.5,3.5,3.5] with count 4
C4_Witness ==
    /\ stacked.clean /\ stacked.amp0 = <<R(1), R(1), R(1)>>
    /\ stacked.apps = SetToBag({[amp |-> <<R(3), R(3), R(3)>>, w |-> 1],
                                [amp |-> <<R(5), R(5), R(5)>>, w |-> 2]})
    /\ call.op = "stack_append" /\ call.result = "ok"
    /\ call.amplitude.data = <<R(5), R(5), R(5)>> /\ call.nstacks = 2
    /\ ts.amp = <<Rat(7, 2), Rat(7, 2), Rat(7, 2)>>
    /\ ts.nstack = 4

RECURSIVE RSum(_, _)
\* the sum of f[x] over the finite set S
RSum(f, S) ==
    IF S = {} THEN R(0)
    ELSE LET x == CHOOSE y \in S : TRUE
         IN  RAdd(f[x], RSum(f, S \ {x}))

RECURSIVE WeightSum(_, _)
\* the stack counts of the bag B of recordings, added up over S
WeightSum(B, S) ==
    IF S = {} THEN 0
    ELSE LET x == CHOOSE y \in S : TRUE
         IN  B[x] * x.w + WeightSum(B, S \ {x})

\* the weighted mean, sample by sample, of the recording amp0 with stack
\* count w0 and the recordings of the bag B, each with its stack count
WeightedMean(amp0, w0, B) ==
    LET recs == BagToSet(B)
        total == w0 + WeightSum(B, recs)
    IN  [i \in 1..Len(amp0) |->
            RDiv(RAdd(RMul(amp0[i], R(w0)),
                      RSum([r \in recs |-> RMul(r.amp[i], R(B[r] * r.w))],
                           recs)),
                 R(total))]

\* C5 (as claimed): whatever the order in which recordings were appended
\* to a waveform, its amplitude is the weighted mean of the recording it
\* was constructed from and the appended ones, each weighted by its stack
\* count, and its stack count is their sum.
C5_StackingIsWeightedMean ==
    (Exists /\ stacked.clean /\ stacked.apps # EmptyBag) =>
        /\ ts.amp = WeightedMean(stacked.amp0, stacked.w0, stacked.apps)
        /\ ts.nstack = stacked.w0 + WeightSum(stacked.apps,
                                              BagToSet(stacked.apps))

C7_DerivedValuesCurrent ==
    Exists =>
        /\ ts.fs = RDiv(R(1), ts.dt)
        /\ ts.fnyq = RDiv(ts.fs, R(2))
        /\ ts.df = RDiv(ts.fs, R(ts.nsamples))

\* C8: a zero_pad or stack_append that raises leaves every attribute of the
\* waveform as it was; zero_pad with df <= 0, zero_pad that finds no
\* multiple and stack_append with a sequence of another length all raise.
C8_FailureLeavesUnchanged ==
    [][/\ (call'.op \in {"zero_pad", "stack_append"}
            /\ call'.result # "ok") => ts' = ts
       /\ (Called("zero_pad") /\ call'.df.type = "float"
            /\ RLe(call'.df.v, R(0))) => call'.result = "ValueError"
       /\ (Called("zero_pad") /\ call'.df.type = "float"
            /\ RLt(R(0), call'.df.v)
            /\ ts.nsamples >= 32 * Nreq(call'.df.v, ts.dt))
                => call'.result = "IndexError"
       /\ (Called("stack_append") /\ call'.amplitude.ndim = 1
            /\ Len(call'.amplitude.data) # Len(ts.amp))
                => call'.result = "IndexError"]_vars

\* a stack_append with a sequence of another length, on a waveform that
\* was stacked and padded before
C8_Witness ==
    /\ call.op = "stack_append" /\ call.result = "IndexError"
    /\ Len(call.amplitude.data) # Len(ts.amp)
    /\ ts.nstack > 1 /\ ts.multiple > 1

----------------------------------------------------------------------------
(* Properties of the format adapter.                                       *)

\* the spellings of the Convention B tag among Tags
SuTags == {<<"S", "U">>, <<"s", "u">>}

\* the sensor is as from_trace left it: nothing has been called on it
AsBuilt == scall.op = "from_trace" /\ cmp.op = "none"

Seg2Tags == {<<"S", "E", "G", "2">>, <<"s", "e", "g", "2">>}

\* C11 (as claimed): a sensor built by from_trace with header parsing, and
\* a waveform built by from_trace_seg2, from a SEG2 trace with a delay of
\* at most zero hold stack count = int(STACK) and delay = float(DELAY);
\* the sensor has x = RECEIVER_LOCATION and y = z = 0.
C11_ConventionA ==
    /\ (/\ AsBuilt /\ scall.read_header
        /\ scall.trace.format \in Seg2Tags
        /\ scall.trace.header.kind = "seg2"
        /\ RLe(scall.trace.header.DELAY, R(0))) =>
            LET h == scall.trace.header IN
            /\ scall.result = "ok" /\ sensor.made
            /\ R(sensor.nstacks) = h.STACK
            /\ sensor.delay = h.DELAY
            /\ sensor.x = h.RECEIVER_LOCATION
            /\ sensor.y = R(0) /\ sensor.z = R(0)
    /\ (/\ scall.op = "TimeSeries.from_trace_seg2" /\ call.op = "init"
        /\ RLe(scall.trace.header.DELAY, R(0))) =>
            LET h == scall.trace.header IN
            /\ scall.result = "ok" /\ Exists
            /\ R(ts.nstack) = h.STACK
            /\ ts.delay = h.DELAY

\* C12: from_trace with header parsing raises NotImplementedError for a
\* tag that is neither SEG2 nor SU in any spelling of case (and for no
\* tag that is one of them), raises ValueError for a trace without a tag,
\* and produces no sensor in either case.
C12_UnrecognizedFormat ==
    (scall.op = "from_trace" /\ scall.read_header) =>
        LET tag == scall.trace.format IN
        /\ tag = NoTag =>
            scall.result = "ValueError" /\ ~ sensor.made
        /\ (tag # NoTag /\ tag \notin SuTags \cup Seg2Tags) =>
            scall.result = "NotImplementedError" /\ ~ sensor.made
        /\ tag \in SuTags \cup Seg2Tags =>
            scall.result # "NotImplementedError"

\* header parsing asked of a trace tagged MSEED
C12_Witness ==
    /\ scall.op = "from_trace" /\ scall.read_header
    /\ scall.trace.format = <<"M", "S", "E", "E", "D">>
    /\ scall.result = "NotImplementedError"
    /\ ~ sensor.made

\* what C13 says of a from_trace call without header parsing: it succeeds
\* and the sensor holds the trace's amplitude and dt and the caller's
\* x, y, z, nstacks and delay
DeclinedHeaderOutcome ==
    /\ scall.result = "ok" /\ sensor.made
    /\ sensor.amp = scall.trace.data.data
    /\ sensor.dt = scall.trace.delta
    /\ sensor.x = scall.x /\ sensor.y = scall.y /\ sensor.z = scall.z
    /\ sensor.nstacks = scall.nstacks
    /\ sensor.delay = scall.delay

\* C13 (as claimed): with read_header = False and a delay of at most zero,
\* from_trace wraps any trace with the caller's values, whether its format
\* tag is supported, unsupported or absent.
C13_DeclinedHeaderAnyTrace ==
    (/\ AsBuilt /\ ~ scall.read_header
     /\ RLe(scall.delay, R(0))) => DeclinedHeaderOutcome

\* C13 (amended): with read_header = False and a delay of at most zero,
\* from_trace wraps any trace that has a format tag, supported or not,
\* with the caller's values; a trace without a format tag raises
\* ValueError and gives no sensor.
C13_DeclinedHeaderTaggedTrace ==
    (/\ AsBuilt /\ ~ scall.read_header
     /\ RLe(scall.delay, R(0))) =>
        IF scall.trace.format # NoTag THEN DeclinedHeaderOutcome
        ELSE scall.result = "ValueError" /\ ~ sensor.made

\* a trace tagged MSEED wrapped with the caller's position, stack count
\* and delay
C13_Witness ==
    /\ scall.op = "from_trace" /\ ~ scall.read_header
    /\ scall.trace.format = <<"M", "S", "E", "E", "D">>
    /\ scall.result = "ok"
    /\ sensor.x = R(2) /\ sensor.y = Rat(-7, 2) /\ sensor.z = R(1)
    /\ sensor.nstacks = 3 /\ sensor.delay = R(-1)

\* C20: the stack count given to the constructor is the stack count the
\* waveform holds, and after one stack_append of a recording b with stack
\* count k to a waveform constructed from a with stack count n the
\* amplitude is (a*n + b*k)/(n + k) and the stack count is n + k.
C20_ConstructorCountIsWeight ==
    /\ (call.op = "init" /\ call.result = "ok") =>
            ts.nstack = call.nstacks
    /\ (Exists /\ stacked.clean /\ BagCardinality(stacked.apps) = 1) =>
            LET b == CHOOSE r \in BagToSet(stacked.apps) : TRUE
                n == stacked.w0
            IN  /\ \A i \in 1..Len(stacked.amp0) :
                     RMul(ts.amp[i], R(n + b.w))
                       = RAdd(RMul(stacked.amp0[i], R(n)),
                              RMul(b.amp[i], R(b.w)))
                /\ ts.nstack = n + b.w

\* the waveforms of two sensors are equal
SameWaveform(a, b) ==
    /\ a.amp = b.amp /\ a.dt = b.dt
    /\ a.nstacks = b.nstacks /\ a.delay = b.delay

\* C14: a sensor compares equal to another sensor exactly when x, y and z
\* are pairwise equal and the waveforms are equal; a sensor built from the
\* same arguments is equal and one with a single coordinate changed is not.
C14_SensorEquality ==
    (cmp.op = "eq" /\ cmp.other.cls = "Sensor1C") =>
        cmp.answer = (/\ sensor.x = cmp.other.x
                      /\ sensor.y = cmp.other.y
                      /\ sensor.z = cmp.other.z
                      /\ SameWaveform(sensor, cmp.other))

\* a sensor away from the origin compared with one that differs in z only
C14_Witness ==
    /\ cmp.op = "eq" /\ ~ cmp.answer
    /\ sensor.x = Rat(5, 2)
    /\ cmp.other = [sensor EXCEPT !.z = R(1)]

\* the coordinates in which the two sensors differ
DifferingCoordinates(a, b) == {c \in {"x", "y", "z"} : a[c] # b[c]}

\* C15: _is_similar answers True for a sensor that differs only in
\* coordinates named in exclude, False for a sensor that differs in a
\* coordinate not named in exclude, and False for anything not a sensor.
C15_SensorSimilarity ==
    cmp.op = "is_similar" =>
        LET differing == DifferingCoordinates(sensor, cmp.other) IN
        /\ cmp.other.cls # "Sensor1C" => ~ cmp.answer
        /\ (/\ cmp.other.cls = "Sensor1C"
            /\ differing \subseteq cmp.exclude
            /\ SameWaveform(sensor, cmp.other)) => cmp.answer
        /\ (/\ cmp.other.cls = "Sensor1C"
            /\ ~ (differing \subseteq cmp.exclude)) => ~ cmp.answer

\* a sensor that differs in x and y, compared with both excluded
C15_Witness ==
    /\ cmp.op = "is_similar" /\ cmp.answer
    /\ cmp.exclude = {"x", "y"}
    /\ DifferingCoordinates(sensor, cmp.other) = {"x", "y"}

\* C16: stack_append and zero_pad on a sensor, successful or failing,
\* leave x, y and z as they were at construction, and the copy made by
\* from_sensor1c has the sensor's x, y, z, amplitude, dt, nstacks and
\* delay.
C16_PositionFixed ==
    [][/\ sensor.made =>
            /\ sensor'.x = sensor.x
            /\ sensor'.y = sensor.y
            /\ sensor'.z = sensor.z
       /\ cmp'.op = "from_sensor1c" =>
            /\ cmp'.result = "ok" /\ cmp'.other.made
            /\ cmp'.other.cls = "Sensor1C"
            /\ cmp'.other.x = sensor.x
            /\ cmp'.other.y = sensor.y
            /\ cmp'.other.z = sensor.z
            /\ SameWaveform(cmp'.other, sensor)]_vars

\* the copy of a sensor built away from the origin, then stacked and padded
C16_Witness ==
    /\ cmp.op = "from_sensor1c" /\ cmp.result = "ok"
    /\ sensor.x = R(2) /\ sensor.y = Rat(-7, 2) /\ sensor.z = R(1)
    /\ sensor.nstacks = 5 /\ Len(sensor.amp) = 4
    /\ cmp.other.y = Rat(-7, 2) /\ cmp.other.nstacks = 5

\* the label the patterns are claimed to hold for a wave type
ClaimedLabel(wavetype) ==
    IF wavetype \in Vocabulary
    THEN [i \in 1..Len(wavetype) |->
            IF i = 1 THEN ToUpper(wavetype[i]) ELSE wavetype[i]]
    ELSE wavetype

\* C17: searched with the strict pattern of a wave type of the vocabulary
\* and no time constraint, a line of time, frequency, label, three signed
\* descriptors, two quality fields and the flag 1 matches if its label is
\* the wave type's capitalized label, the groups being exactly its seven
\* numeric fields in order, and does not match if its label is another one.
C17_StrictPattern ==
    (/\ rx.fn = "get_peak_from_max" /\ rx.line # NoLine
     /\ rx.time = DefaultTime /\ rx.wavetype \in Vocabulary) =>
        IF rx.line.label = ClaimedLabel(rx.wavetype)
        THEN /\ rx.result.matched
             /\ rx.result.groups = <<rx.line.time, rx.line.frequency,
                                     rx.line.a, rx.line.b, rx.line.c,
                                     rx.line.qa, rx.line.qb>>
        ELSE ~ rx.result.matched

\* "12.5 0.045 Rayleigh -3.2e-01 4.5e+00 -1.0e+00 0.95 0.88 1" searched
\* with the strict pattern for rayleigh
C17_Witness ==
    /\ rx.fn = "get_peak_from_max"
    /\ rx.wavetype = <<"r", "a", "y", "l", "e", "i", "g", "h">>
    /\ rx.time = DefaultTime
    /\ Text(rx.line) = <<"1", "2", ".", "5", " ", "0", ".", "0", "4", "5", " ", "R", "a", "y", "l", "e", "i", "g", "h", " ", "-", "3", ".", "2", "e", "-", "0", "1", " ">>
                       \o <<"4", ".", "5", "e", "+", "0", "0", " ", "-", "1", ".", "0", "e", "+", "0", "0", " ", "0", ".", "9", "5", " ", "0", ".", "8", "8", " ", "1">>
    /\ rx.result.matched
    /\ Len(rx.result.groups) = 7
    /\ rx.result.groups[3] = <<"-", "3", ".", "2", "e", "-", "0", "1">>
    /\ rx.result.groups[7] = <<"0", ".", "8", "8">>

\* C18 (as claimed): the strict and the loose pattern both hold the wave
\* type with its first letter capitalized if it is one of rayleigh, love,
\* vertical, radial, transverse, and as it was given otherwise.
C18_LabelInsertion ==
    /\ rx.fn = "get_peak_from_max" =>
        rx.pattern = StrictPattern(rx.time, ClaimedLabel(rx.wavetype))
    /\ rx.fn = "get_all" =>
        rx.pattern = LoosePattern(rx.time, ClaimedLabel(rx.wavetype))

\* whether the value v lies within the limits
Within(v, limits) ==
    /\ limits[1].none \/ RLe(limits[1].v, v)
    /\ limits[2].none \/ RLe(v, limits[2].v)

\* the n-th smallest of the set K of indices
Nth(K, n) == CHOOSE k \in K : Cardinality({j \in K : j < k}) = n - 1

\* the entries of array at the indices K, in their order
AtIndices(array, K) == [n \in 1..Cardinality(K) |-> array[Nth(K, n)]]

C21_RepeatedZeroPad ==
    [][(/\ Called("zero_pad")
        /\ call'.df.type = "float" /\ RLt(R(0), call'.df.v)) =>
        LET nreq == Nreq(call'.df.v, ts.dt)
            same == padrun.df = call'.df
        IN  /\ \A m \in {1, 2, 4, 8, 16} :
                    (nreq >= 1 /\ ts.nsamples = nreq * m) =>
                        /\ call'.result = "ok"
                        /\ ts'.nsamples = nreq * 2 * m
                        /\ ts'.multiple = 2 * m
            /\ call'.result = "ok" => ts'.nsamples > ts.nsamples
            /\ padrun'.count <= 6
            /\ (same /\ padrun.count = 6) => call'.result # "ok"
            /\ (same /\ padrun.count >= 1 /\ call'.result # "ok") =>
                    /\ call'.result = "IndexError"
                    /\ ts.nsamples = nreq * 32
                    /\ ts'.nsamples = ts.nsamples
                    /\ ts'.amp = ts.amp]_vars

\* six zero_pad calls with one df have succeeded, from below nreq up to
\* nreq*32 samples, and the seventh has failed
C21_Witness ==
    /\ call.op = "zero_pad" /\ call.result = "IndexError"
    /\ padrun.df = call.df /\ padrun.count = 6
    /\ ts.multiple = 32
    /\ ts.nsamples = 32 * Nreq(call.df.v, ts.dt)

====
